---- MODULE Spec2Model ----
(***************************************************************************)
(* Model of the browser client of the rehabilitation-exercise evaluator:   *)
(* WebSocketClient and ActionSelector (src/unnamed/part_001) and           *)
(* RehabEvaluationApp (src/frontend/scripts/main.js).                       *)
(*                                                                         *)
(* One action is one task of the browser's event loop: a user click, a     *)
(* socket event, a timer or a REST response, run to completion together    *)
(* with the promise continuations it releases.                             *)
(***************************************************************************)
EXTENDS Integers, Sequences, FiniteSets, TLC

\* ------------------------------------------------------------------ bounds
MaxSockets == 2      \* sockets the transport may create (connect() calls)
MaxCatalog == 2      \* entries of a catalog the backend sends
MaxCount == 2        \* largest repetition count in a result message
MaxListeners == 3    \* change listeners of the dropdown the model counts
MaxLoops == 2        \* drawFrame loops of the recorder that run at a time
MaxCallbacks == 3    \* listeners registered through on(), over the emitters

\* ------------------------------------------------------------- JS values
\* An exercise of the catalog. selectedAction is null, undefined (what
\* Array.prototype.find returns when nothing matches) or a catalog entry.
NullAction == [kind |-> "null", id |-> "", name |-> "", up_angle |-> 0]
UndefinedAction == [kind |-> "undefined", id |-> "", name |-> "", up_angle |-> 0]
Exercise(id, name, up) == [kind |-> "action", id |-> id, name |-> name, up_angle |-> up]

Squat == Exercise("a", "Squat", 170)
SquatEdited == Exercise("a", "Squat", 160)
Lunge == Exercise("b", "Lunge", 150)
Exercises == {Squat, SquatEdited, Lunge}

\* Ids a caller may pass to selectExercise: two catalog ids, one id no
\* catalog of the model holds, and the value of the dropdown's empty option.
Ids == {"a", "b", "zz", ""}

\* JS truthiness of a selectedAction value.
Truthy(a) == a.kind = "action"

\* A catalog value: an array that lists an exercise at most once (two
\* entries may share an id), or undefined (an actions_list message without
\* an "actions" field).
Lists ==
  {l \in UNION {[1..n -> Exercises] : n \in 0..MaxCatalog} :
     \A i, j \in 1..Len(l) : l[i] = l[j] => i = j}
Catalog(list) == [defined |-> TRUE, list |-> list]
UndefinedCatalog == [defined |-> FALSE, list |-> <<>>]
Catalogs == {Catalog(l) : l \in Lists} \cup {UndefinedCatalog}

HasId(list, id) == \E i \in 1..Len(list) : list[i].id = id

\* A lookup that returns the last match instead of the first.
FindLast(list, id) ==
  IF HasId(list, id)
    THEN list[CHOOSE i \in 1..Len(list) :
                /\ list[i].id = id
                /\ \A j \in (i + 1)..Len(list) : list[j].id # id]
    ELSE UndefinedAction

\* Array.prototype.find((action) => action.id === id): the first match, or
\* undefined.
Find(list, id) ==
  IF HasId(list, id)
    THEN list[CHOOSE i \in 1..Len(list) :
                /\ list[i].id = id
                /\ \A j \in 1..(i - 1) : list[j].id # id]
    ELSE UndefinedAction

\* ------------------------------------------------------- inbound messages
\* event.data of a message event, by what JSON.parse makes of it: a syntax
\* error, or a value that is null, a number or an object; an object's
\* absent fields are "undefined".
Stages == {"up", "down"}
Angles == {14273}            \* hundredths of a degree: 142.73
Frames == {"", "jpeg1"}      \* base64 payloads; "" is falsy

NoMessage ==
  [syntax |-> "none", json |-> "none", type |-> "undefined", present |-> {},
   count |-> 0, stage |-> "", stageType |-> "undefined", angle |-> 0,
   actions |-> UndefinedCatalog, data |-> ""]

Object(type) == [NoMessage EXCEPT !.syntax = "ok", !.json = "object", !.type = type]

StatFields == {"count", "stage", "angle"}

ResultMessages ==
  {[Object("result") EXCEPT !.present = StatFields, !.count = c, !.stage = s,
                            !.stageType = "string", !.angle = a] :
     c \in 1..MaxCount, s \in Stages, a \in Angles}

\* A result that carries a count only.
PartialResults ==
  {[Object("result") EXCEPT !.present = {"count"}, !.count = c] : c \in 1..MaxCount}

\* A result whose stage is a JSON number: stage.toUpperCase is not a function.
BadStageResults ==
  {[Object("result") EXCEPT !.present = StatFields, !.count = c, !.stage = "7",
                            !.stageType = "number", !.angle = a] :
     c \in 1..MaxCount, a \in Angles}

FrameMessages == {[Object("processed_frame") EXCEPT !.data = d] : d \in Frames}

ActionsListMessages == {[Object("actions_list") EXCEPT !.actions = c] : c \in Catalogs}

LoggedTypes == {"warning", "error", "action_selected", "action_stopped", "evaluation_started"}
LoggedMessages == {Object(t) : t \in LoggedTypes}

KnownTypes == {"processed_frame", "result", "actions_list"} \cup LoggedTypes

\* Invalid JSON, JSON null, a JSON number, an object without a type, an
\* object of an unknown type.
MalformedMessages ==
  { [NoMessage EXCEPT !.syntax = "bad"],
    [NoMessage EXCEPT !.syntax = "ok", !.json = "null"],
    [NoMessage EXCEPT !.syntax = "ok", !.json = "number"],
    Object("undefined"),
    Object("pose") }

Messages ==
  ResultMessages \cup PartialResults \cup BadStageResults \cup FrameMessages \cup ActionsListMessages
    \cup LoggedMessages \cup MalformedMessages

\* JSON.parse(event.data) followed by the read of message.type: "SyntaxError"
\* when the text is no JSON, "TypeError" when the value is null, else the
\* type (undefined for a number or an object without the field).
MessageType(m) ==
  IF m.syntax = "bad" THEN "SyntaxError"
  ELSE IF m.json = "null" THEN "TypeError"
  ELSE IF m.json = "number" THEN "undefined"
  ELSE m.type

ParseThrows(m) == MessageType(m) \in {"SyntaxError", "TypeError"}

\* ------------------------------------------------------ outbound commands
\* The object handed to send(); action_id is "" for a command without one.
Command(type, id) == [type |-> type, action_id |-> id]

\* ---------------------------------------------------------------- state
VARIABLES
  ws,                   \* WebSocketClient: socket, connected, sockets' readyState
  selector,             \* ActionSelector: actions, selectedAction, statistics shown,
                        \* and the change listeners on its dropdown
  isEvaluating,         \* RehabEvaluationApp.isEvaluating
  customActionsManager, \* whether initOptionalModules has created the manager
  fetch,                \* the catalog fetch each opened socket started
  alert,                \* the alert() the last task showed, "none" if none
  sent,                 \* the commands the last task handed to socket.send
  drawn,                \* the payloads the last task handed to the canvas image
  calls,                \* the arguments of the last task's updateStats calls
  caught,               \* the last task logged an exception in a catch block
  escaped,              \* the last task let an exception out to its caller
  lastOp,               \* the last task
  lastIn,               \* the message of the last task, for a result or actions_list
  lastId,               \* the id of the last task, when it was a selection
  customActions,        \* CustomActionsManager: its script, this.actions, its request
  server,               \* the catalog the backend holds, which GET /actions returns
  notified,             \* the lists the last task of the manager gave onActionsChange
  recorder,             \* VideoSaver: isRecording, mediaRecorder, chunks, drawFrame loops
  bus                   \* the listeners of the three emitters and their last notification

\* The optional modules and the emitters' listeners.
modules == <<customActions, server, notified, recorder, bus>>

vars ==
  <<ws, selector, isEvaluating, customActionsManager, fetch, alert, sent, drawn,
    calls, caught, escaped, lastOp, lastIn, lastId, modules>>

Sockets == 1..MaxSockets

\* ------------------------------------------------------- WebSocketClient
\* isConnected() that only tests that a socket exists.
IsConnectedAnySocket(w) == w.socket # 0

\* isConnected(): this.socket && this.socket.readyState === WebSocket.OPEN
IsConnected(w) == w.socket # 0 /\ w.readyState[w.socket] = "OPEN"

\* send(message) that trusts the connected flag alone.
SendIfFlag(w, message) == IF w.connected THEN <<message>> ELSE <<>>

\* send(message): the commands transmitted, <<message>> when the send is
\* accepted (returns true) and <<>> when it is refused (returns false).
Send(w, message) ==
  IF w.connected /\ w.readyState[w.socket] = "OPEN" THEN <<message>> ELSE <<>>

\* send(message) raises a TypeError when it reads readyState of a null
\* socket, which takes a connected flag that is set without a socket.
SendThrows(w) == w.connected /\ w.socket = 0

\* WebSocket.close(): a socket that is connecting or open starts closing
\* (a connecting one fails its connection); a closing or closed one stays.
Close(state) == IF state \in {"CONNECTING", "OPEN"} THEN "CLOSING" ELSE state

\* disconnect() that calls this.socket.close() without testing this.socket.
DisconnectUnguarded(w) ==
  IF w.socket = 0 THEN [ws |-> w, threw |-> TRUE]
  ELSE [ws |-> [w EXCEPT !.readyState[w.socket] = Close(@)], threw |-> FALSE]

\* disconnect(): if (this.socket) this.socket.close()
Disconnect(w) ==
  [ws |-> IF w.socket # 0 THEN [w EXCEPT !.readyState[w.socket] = Close(@)] ELSE w,
   threw |-> FALSE]

\* -------------------------------------------------------- ActionSelector
ResetCount == 0
ResetStage == "-"
ResetAngle == <<0, 0>>

\* resetStats()
ResetStats(s) ==
  [s EXCEPT !.count = ResetCount, !.stage = ResetStage, !.angle = ResetAngle]

\* String.prototype.toUpperCase on the stages of the protocol.
ToUpperCase(str) ==
  CASE str = "up" -> "UP"
    [] str = "down" -> "DOWN"
    [] str = "hold" -> "HOLD"
    [] OTHER -> str

\* Number.prototype.toFixed(1) of an angle given in hundredths: the text
\* <whole>.<tenth>, as the pair of its two numbers.
ToFixed1(hundredths) ==
  LET tenths == (hundredths + 5) \div 10
  IN  <<tenths \div 10, tenths % 10>>

\* updateStats(stats): the fields are written in the order count, stage,
\* angle; a stage that is no string throws after count has been written.
UpdateStats(s, stats) ==
  LET s1 == IF "count" \in stats.present THEN [s EXCEPT !.count = stats.count] ELSE s
      stageThrows == "stage" \in stats.present /\ stats.stageType # "string"
      s2 == IF "stage" \in stats.present /\ ~stageThrows
              THEN [s1 EXCEPT !.stage = ToUpperCase(stats.stage)] ELSE s1
      s3 == IF "angle" \in stats.present
              THEN [s2 EXCEPT !.angle = ToFixed1(stats.angle)] ELSE s2
  IN  IF stageThrows THEN [sel |-> s1, threw |-> TRUE]
      ELSE [sel |-> s3, threw |-> FALSE]

\* _populateActionSelect() on a catalog that is an array: it rebuilds the
\* options and adds one more change listener to the dropdown. The model
\* counts the listeners up to MaxListeners; a count of MaxListeners stands
\* for that many or more, and no task that reads the count runs then.
PopulateActionSelect(s) ==
  [s EXCEPT !.listeners = IF @ < MaxListeners THEN @ + 1 ELSE @]

\* The app's onActionChange listener (initActionSelector): the commands it
\* sends for the action it is notified of.
OnActionChange(w, action) ==
  IF IsConnected(w) /\ Truthy(action)
    THEN Send(w, Command("action_select", action.id))
    ELSE <<>>

\* _handleActionChange(actionId)
HandleActionChange(s, w, actionId) ==
  IF actionId # ""
    THEN IF ~s.actions.defined
           THEN [sel |-> s, sent |-> <<>>, threw |-> TRUE]
           ELSE LET found == Find(s.actions.list, actionId)
                    s1 == [s EXCEPT !.selectedAction = found]
                IN  [sel |-> ResetStats(s1),
                     sent |-> IF Truthy(found) THEN OnActionChange(w, found) ELSE <<>>,
                     threw |-> FALSE]
    ELSE [sel |-> ResetStats([s EXCEPT !.selectedAction = NullAction]),
          sent |-> OnActionChange(w, NullAction),
          threw |-> FALSE]

\* updateActions(actions) that keeps the selected entry as it was when the
\* refreshed catalog still has its id.
UpdateActionsKeepsEntry(s, w, catalog) ==
  LET s0 == [s EXCEPT !.actions = catalog]
      s1 == PopulateActionSelect(s0)
      hadSelection == Truthy(s.selectedAction)
      updated == Find(catalog.list, s.selectedAction.id)
  IN  IF ~catalog.defined THEN [sel |-> s0, sent |-> <<>>, threw |-> TRUE]
      ELSE IF ~hadSelection THEN [sel |-> s1, sent |-> <<>>, threw |-> FALSE]
      ELSE IF Truthy(updated)
        THEN [sel |-> s1, sent |-> OnActionChange(w, updated), threw |-> FALSE]
        ELSE [sel |-> [s1 EXCEPT !.selectedAction = NullAction],
              sent |-> OnActionChange(w, NullAction), threw |-> FALSE]

\* updateActions(actions): _populateActionSelect throws on a catalog that is
\* no array, after this.actions has been assigned.
UpdateActions(s, w, catalog) ==
  LET s0 == [s EXCEPT !.actions = catalog]
      s1 == PopulateActionSelect(s0)
      hadSelection == Truthy(s.selectedAction)
      updated == Find(catalog.list, s.selectedAction.id)
  IN  IF ~catalog.defined THEN [sel |-> s0, sent |-> <<>>, threw |-> TRUE]
      ELSE IF ~hadSelection THEN [sel |-> s1, sent |-> <<>>, threw |-> FALSE]
      ELSE IF Truthy(updated)
        THEN [sel |-> [s1 EXCEPT !.selectedAction = updated],
              sent |-> OnActionChange(w, updated), threw |-> FALSE]
        ELSE [sel |-> [s1 EXCEPT !.selectedAction = NullAction],
              sent |-> OnActionChange(w, NullAction), threw |-> FALSE]

\* ---------------------------------------------------- RehabEvaluationApp
\* Variants of handleWebSocketMessage with one slip each: "unguarded" forwards
\* results and frames without testing isEvaluating, "twice" calls updateStats
\* twice for a result, "reset" resets the statistics in the catch block.
HandleWebSocketMessageWith(slip, s, w, evaluating, manager, m) ==
  LET type == MessageType(m)
      forward == evaluating \/ slip = "unguarded"
      none == [sel |-> s, sent |-> <<>>, drawn |-> <<>>, calls |-> <<>>, caught |-> FALSE]
  IN  CASE ParseThrows(m) ->
             [none EXCEPT !.caught = TRUE,
                          !.sel = IF slip = "reset" THEN ResetStats(s) ELSE s]
        [] type = "processed_frame" ->
             IF forward /\ m.data # "" THEN [none EXCEPT !.drawn = <<m.data>>] ELSE none
        [] type = "result" ->
             IF forward
               THEN LET r == UpdateStats(s, m)
                    IN  [none EXCEPT !.sel = r.sel,
                                     !.calls = IF slip = "twice" THEN <<m, m>> ELSE <<m>>,
                                     !.caught = r.threw]
               ELSE none
        [] type = "actions_list" ->
             LET r == UpdateActions(s, w, m.actions)
             IN  [none EXCEPT !.sel = r.sel, !.sent = r.sent,
                              !.caught = r.threw \/ manager]
        [] OTHER -> none

HandleWebSocketMessageUnguarded(s, w, evaluating, manager, m) ==
  HandleWebSocketMessageWith("unguarded", s, w, evaluating, manager, m)

HandleWebSocketMessageTwice(s, w, evaluating, manager, m) ==
  HandleWebSocketMessageWith("twice", s, w, evaluating, manager, m)

HandleWebSocketMessageResets(s, w, evaluating, manager, m) ==
  HandleWebSocketMessageWith("reset", s, w, evaluating, manager, m)

\* handleWebSocketMessage(event)
HandleWebSocketMessage(s, w, evaluating, manager, m) ==
  LET type == MessageType(m)
      none == [sel |-> s, sent |-> <<>>, drawn |-> <<>>, calls |-> <<>>, caught |-> FALSE]
  IN  CASE ParseThrows(m) -> [none EXCEPT !.caught = TRUE]
        [] type = "processed_frame" ->
             IF evaluating /\ m.data # "" THEN [none EXCEPT !.drawn = <<m.data>>] ELSE none
        [] type = "result" ->
             IF evaluating
               THEN LET r == UpdateStats(s, m)
                    IN  [none EXCEPT !.sel = r.sel, !.calls = <<m>>, !.caught = r.threw]
               ELSE none
        [] type = "actions_list" ->
             LET r == UpdateActions(s, w, m.actions)
             IN  \* customActionsManager.setActions is not a function: the
                 \* call throws a TypeError the catch block logs
                 [none EXCEPT !.sel = r.sel, !.sent = r.sent,
                              !.caught = r.threw \/ manager]
        [] OTHER -> none

\* removeEventListener(eventName, callback): whether a callback that is
\* registered under "onMessage" is still registered afterwards. Only the
\* list callbacks[eventName] is filtered.
RemoveEventListener(eventName, registered) ==
  IF eventName = "onMessage" THEN FALSE ELSE registered

\* The temporary listener handleMessage of ActionSelector.fetchActions, run
\* once: on an actions_list it stores the actions, populates the dropdown,
\* calls removeEventListener("message", handleMessage) and resolves.
FetchListener(s, m) ==
  IF ~ParseThrows(m) /\ MessageType(m) = "actions_list"
    THEN [sel |-> IF m.actions.defined
                    THEN PopulateActionSelect([s EXCEPT !.actions = m.actions])
                    ELSE [s EXCEPT !.actions = m.actions],
          resolved |-> m.actions.defined,
          caught |-> ~m.actions.defined]
    ELSE [sel |-> s, resolved |-> FALSE, caught |-> ParseThrows(m)]

\* The selector after k registered temporary listeners have handled m.
RECURSIVE FetchListeners(_, _, _)
FetchListeners(k, s, m) ==
  IF k = 0 THEN s ELSE FetchListeners(k - 1, FetchListener(s, m).sel, m)

\* A change event of the dropdown: each of the n change listeners calls
\* _handleActionChange(value), one after the other.
RECURSIVE HandleChanges(_, _, _, _)
HandleChanges(n, s, w, value) ==
  IF n = 0 THEN [sel |-> s, sent |-> <<>>]
  ELSE LET r == HandleActionChange(s, w, value)
           rest == HandleChanges(n - 1, r.sel, w, value)
       IN  [sel |-> rest.sel, sent |-> r.sent \o rest.sent]

\* What lastOp records of a message task: the branch of the switch.
MessageOp(m) ==
  LET type == MessageType(m)
  IN  IF ParseThrows(m) \/ type \notin KnownTypes THEN "malformed"
      ELSE IF type \in LoggedTypes THEN "logged"
      ELSE type

\* A catalog fetch: whether fetchActions has run, its promise is unsettled,
\* an actions_list has resolved it, its timer is armed, its temporary
\* listener is registered on the transport, its REST request is in flight,
\* and how often it has called fetchActionsRest.
NoFetch ==
  [started |-> FALSE, pending |-> FALSE, answered |-> FALSE, timer |-> FALSE,
   listening |-> FALSE, rest |-> FALSE, restCalls |-> 0]

\* The two scripts that define class CustomActionsManager: part_002, whose
\* constructor takes the twelve ids main.js passes, and part_000.
Scripts == {"part_000", "part_002"}

\* new CustomActionsManager(...): this.actions = [], no request in flight.
NewManager(script) == [script |-> script, actions |-> Catalog(<<>>), request |-> "none"]

\* new VideoSaver(...)
NewRecorder ==
  [isRecording |-> FALSE, mediaRecorder |-> "null", pending |-> "none",
   chunks |-> 0, loops |-> 0]

\* The classes whose objects notify listeners through _notifyCallbacks; the
\* model holds one object of each, constructed by a caller of its own (not
\* the objects of the page, on which main.js registers its listeners).
Emitters == {"WebSocketClient", "ActionSelector", "Settings"}

\* No listener registered through on() yet, nothing notified.
NewBus ==
  [callbacks |-> [e \in Emitters |-> <<>>], invoked |-> <<>>, logged |-> 0,
   threw |-> FALSE]

\* The optional modules as constructed, with CustomActionsManager taken
\* from the given script, and the backend holding its default catalog.
InitModules(script) ==
  /\ customActions = NewManager(script)
  /\ server = <<Squat>>
  /\ notified = <<>>
  /\ recorder = NewRecorder
  /\ bus = NewBus

\* new CustomActionsManager(...) with the 12 ids initCustomActions passes:
\* the constructor of part_000 takes 13, its customActionsBtn is null and
\* bindEvents() throws a TypeError; the constructor of part_002 takes 12.
ConstructorThrows(script) == script = "part_000"

\* initOptionalModules(): whether this.customActionsManager is set
\* afterwards and whether its catch block logged an exception.
InitOptionalModules(script) ==
  [manager |-> ~ConstructorThrows(script), caught |-> ConstructorThrows(script)]

\* The state after `new RehabEvaluationApp()` has run up to its first
\* await: connect() has created the socket, or the constructor of WebSocket
\* threw, connect() and init() have logged it in their catch blocks, and
\* init() has shown the failure and run initOptionalModules().
InitApp ==
  /\ \E constructed \in BOOLEAN :
       /\ ws = [socket |-> IF constructed THEN 1 ELSE 0,
                created |-> 1,
                connected |-> FALSE,
                readyState |-> [i \in Sockets |->
                                 IF constructed /\ i = 1 THEN "CONNECTING" ELSE "NONE"],
                outcome |-> [i \in Sockets |->
                              IF i # 1 THEN "none"
                              ELSE IF constructed THEN "pending" ELSE "rejected"]]
       /\ customActionsManager =
            (~constructed /\ InitOptionalModules(customActions.script).manager)
       /\ alert = IF constructed THEN "none" ELSE "init_failed"
       /\ caught = ~constructed
  /\ selector = [actions |-> Catalog(<<>>), selectedAction |-> NullAction,
                 count |-> ResetCount, stage |-> ResetStage, angle |-> ResetAngle,
                 listeners |-> 0]
  /\ isEvaluating = FALSE
  /\ fetch = [i \in Sockets |-> NoFetch]
  /\ sent = <<>>
  /\ drawn = <<>>
  /\ calls = <<>>
  /\ escaped = FALSE
  /\ lastOp = "init"
  /\ lastIn = NoMessage
  /\ lastId = ""

\* The application of main.js, which constructs the manager of part_002.
Init == InitModules("part_002") /\ InitApp

\* What a task leaves alone unless it says otherwise.
Quiet ==
  /\ drawn' = <<>> /\ calls' = <<>> /\ lastIn' = NoMessage /\ lastId' = ""
  /\ UNCHANGED modules

\* The user changes the dropdown: _handleActionChange(actionId)
SelectExercise(actionId) ==
  LET r == HandleActionChange(selector, ws, actionId)
  IN  /\ selector' = r.sel
      /\ sent' = r.sent
      /\ escaped' = r.threw
      /\ caught' = FALSE
      /\ alert' = "none"
      /\ lastOp' = "select"
      /\ lastId' = actionId
      /\ drawn' = <<>>
      /\ calls' = <<>>
      /\ lastIn' = NoMessage
      /\ UNCHANGED <<ws, isEvaluating, customActionsManager, fetch, modules>>

\* The options of the dropdown: the default option and one per action.
Options ==
  {""} \cup (IF selector.actions.defined
               THEN {selector.actions.list[k].id : k \in 1..Len(selector.actions.list)}
               ELSE {})

\* The user picks an option of the dropdown: the change event runs every
\* change listener _populateActionSelect has added.
DropdownChange(value) ==
  /\ value \in Options
  /\ selector.listeners < MaxListeners
  /\ LET r == HandleChanges(selector.listeners, selector, ws, value)
     IN  /\ selector' = r.sel
         /\ sent' = r.sent
  /\ escaped' = FALSE
  /\ caught' = FALSE
  /\ alert' = "none"
  /\ lastOp' = "change"
  /\ lastId' = value
  /\ drawn' = <<>>
  /\ calls' = <<>>
  /\ lastIn' = NoMessage
  /\ UNCHANGED <<ws, isEvaluating, customActionsManager, fetch, modules>>

\* startEvaluation() without the check of isConnected().
StartEvaluationUnchecked ==
  /\ lastOp' = "start"
  /\ caught' = FALSE
  /\ escaped' = FALSE
  /\ Quiet
  /\ IF ~Truthy(selector.selectedAction)
       THEN /\ alert' = "select_first"
            /\ sent' = <<>>
            /\ UNCHANGED isEvaluating
       ELSE /\ isEvaluating' = TRUE
            /\ sent' = Send(ws, Command("start_evaluation", selector.selectedAction.id))
            /\ alert' = "none"
  /\ UNCHANGED <<ws, selector, customActionsManager, fetch>>

\* startEvaluation()
StartEvaluation ==
  /\ lastOp' = "start"
  /\ caught' = FALSE
  /\ escaped' = FALSE
  /\ Quiet
  /\ IF ~Truthy(selector.selectedAction)
       THEN /\ alert' = "select_first"
            /\ sent' = <<>>
            /\ UNCHANGED isEvaluating
       ELSE IF ~IsConnected(ws)
         THEN /\ alert' = "not_connected"
              /\ sent' = <<>>
              /\ UNCHANGED isEvaluating
         ELSE /\ isEvaluating' = TRUE
              /\ sent' = Send(ws, Command("start_evaluation", selector.selectedAction.id))
              /\ alert' = "none"
  /\ UNCHANGED <<ws, selector, customActionsManager, fetch>>

\* stopEvaluation() that resets the statistics only when the stop command
\* was accepted by the transport.
StopEvaluationIfSent ==
  /\ isEvaluating' = FALSE
  /\ sent' = Send(ws, Command("stop_evaluation", ""))
  /\ selector' = IF sent' # <<>> THEN ResetStats(selector) ELSE selector
  /\ alert' = "none"
  /\ caught' = FALSE
  /\ escaped' = FALSE
  /\ lastOp' = "stop"
  /\ Quiet
  /\ UNCHANGED <<ws, customActionsManager, fetch>>

\* stopEvaluation()
StopEvaluation ==
  /\ isEvaluating' = FALSE
  /\ sent' = Send(ws, Command("stop_evaluation", ""))
  /\ selector' = ResetStats(selector)
  /\ alert' = "none"
  /\ caught' = FALSE
  /\ escaped' = FALSE
  /\ lastOp' = "stop"
  /\ Quiet
  /\ UNCHANGED <<ws, customActionsManager, fetch>>

\* The init() continuation that awaits connect(): it runs once, when the
\* promise of the first connect() settles, and creates the optional
\* modules in its finally block.
InitResumes(i) == i = 1 /\ ws.outcome[i] = "pending"

\* socket.onopen of socket i, the onOpen listener of the app (fetchActions:
\* register the temporary listener, send get_actions, arm the 5 s timer) and
\* resolve(event).
SocketOpen(i) ==
  /\ ws.readyState[i] = "CONNECTING"
  /\ LET w == [ws EXCEPT !.connected = TRUE, !.readyState[i] = "OPEN",
                         !.outcome[i] = IF @ = "pending" THEN "resolved" ELSE @]
     IN  /\ ws' = w
         /\ sent' = Send(w, Command("get_actions", ""))
  /\ fetch' = [fetch EXCEPT ![i] = [NoFetch EXCEPT !.started = TRUE, !.pending = TRUE,
                                                   !.timer = TRUE, !.listening = TRUE]]
  /\ customActionsManager' =
       (customActionsManager
          \/ (InitResumes(i) /\ InitOptionalModules(customActions.script).manager))
  /\ alert' = "none"
  /\ caught' = (InitResumes(i) /\ InitOptionalModules(customActions.script).caught)
  /\ escaped' = FALSE
  /\ lastOp' = "open"
  /\ Quiet
  /\ UNCHANGED <<selector, isEvaluating>>

\* The socket closes, with an onerror handler whose reject(event) settles
\* a promise that resolve(event) has settled before.
SocketCloseResettles(i, failed) ==
  /\ ws.readyState[i] \in {"CONNECTING", "OPEN", "CLOSING"}
  /\ ws.outcome[i] = "pending" => failed
  /\ ws' = [ws EXCEPT !.connected = FALSE, !.readyState[i] = "CLOSED",
                       !.outcome[i] = IF failed THEN "rejected" ELSE @]
  /\ customActionsManager' =
       (customActionsManager
          \/ (failed /\ InitResumes(i) /\ InitOptionalModules(customActions.script).manager))
  /\ alert' = IF failed /\ InitResumes(i) THEN "init_failed" ELSE "none"
  /\ sent' = <<>>
  /\ caught' = (failed /\ InitResumes(i))
  /\ escaped' = FALSE
  /\ lastOp' = IF failed THEN "error_close" ELSE "close"
  /\ Quiet
  /\ UNCHANGED <<selector, isEvaluating, fetch>>

\* The socket closes, with an onclose handler that connects again: it puts a
\* new socket in place of the closed one.
SocketCloseReconnects(i, failed) ==
  /\ ws.readyState[i] \in {"CONNECTING", "OPEN", "CLOSING"}
  /\ ws.outcome[i] = "pending" => failed
  /\ LET closed == [ws EXCEPT !.connected = FALSE, !.readyState[i] = "CLOSED",
                              !.outcome[i] = IF failed /\ @ = "pending" THEN "rejected" ELSE @]
         n == ws.created + 1
     IN  ws' = IF ws.created < MaxSockets
                 THEN [closed EXCEPT !.created = n, !.socket = n,
                                     !.readyState[n] = "CONNECTING", !.outcome[n] = "pending"]
                 ELSE closed
  /\ customActionsManager' =
       (customActionsManager
          \/ (failed /\ InitResumes(i) /\ InitOptionalModules(customActions.script).manager))
  /\ alert' = IF failed /\ InitResumes(i) THEN "init_failed" ELSE "none"
  /\ sent' = <<>>
  /\ caught' = (failed /\ InitResumes(i))
  /\ escaped' = FALSE
  /\ lastOp' = IF failed THEN "error_close" ELSE "close"
  /\ Quiet
  /\ UNCHANGED <<selector, isEvaluating, fetch>>

\* The socket closes: when the connection failed, socket.onerror runs first
\* (reject(event): if init() still awaits connect(), its catch block logs
\* and shows the failure and its finally block runs initOptionalModules());
\* then socket.onclose clears the connected flag. A socket that never
\* opened closes only by failing, also when close() was called on it.
SocketClose(i, failed) ==
  /\ ws.readyState[i] \in {"CONNECTING", "OPEN", "CLOSING"}
  /\ ws.outcome[i] = "pending" => failed
  /\ ws' = [ws EXCEPT !.connected = FALSE, !.readyState[i] = "CLOSED",
                       !.outcome[i] = IF failed /\ @ = "pending" THEN "rejected" ELSE @]
  /\ customActionsManager' =
       (customActionsManager
          \/ (failed /\ InitResumes(i) /\ InitOptionalModules(customActions.script).manager))
  /\ alert' = IF failed /\ InitResumes(i) THEN "init_failed" ELSE "none"
  /\ sent' = <<>>
  /\ caught' = (failed /\ InitResumes(i))
  /\ escaped' = FALSE
  /\ lastOp' = IF failed THEN "error_close" ELSE "close"
  /\ Quiet
  /\ UNCHANGED <<selector, isEvaluating, fetch>>

\* socket.onmessage of socket i: the onMessage listeners in registration
\* order, the app's handler first, then the listeners fetchActions left.
Receive(i, m) ==
  /\ ws.readyState[i] = "OPEN"
  /\ LET r == HandleWebSocketMessage(selector, ws, isEvaluating, customActionsManager, m)
         listeners == Cardinality({j \in Sockets : fetch[j].listening})
         listening == listeners > 0
         f == FetchListener(r.sel, m)
     IN  /\ selector' = FetchListeners(listeners, r.sel, m)
         /\ fetch' = [j \in Sockets |->
                        IF fetch[j].listening /\ f.resolved
                          THEN [fetch[j] EXCEPT
                                  !.pending = FALSE,
                                  !.answered = @ \/ fetch[j].pending,
                                  !.listening = RemoveEventListener("message", @)]
                          ELSE fetch[j]]
         /\ sent' = r.sent
         /\ drawn' = r.drawn
         /\ calls' = r.calls
         /\ caught' = (r.caught \/ (listening /\ f.caught))
  /\ escaped' = FALSE
  /\ alert' = "none"
  /\ lastOp' = MessageOp(m)
  /\ lastIn' = IF MessageOp(m) \in {"result", "actions_list"} THEN m ELSE NoMessage
  /\ lastId' = ""
  /\ UNCHANGED <<ws, isEvaluating, customActionsManager, modules>>

\* The 5 s timer fires and the app falls back to fetchActionsRest whether
\* or not an actions_list had resolved the promise.
FetchTimeoutAlwaysRest(i) ==
  /\ fetch[i].timer
  /\ fetch' = [fetch EXCEPT ![i] = [@ EXCEPT !.timer = FALSE, !.pending = FALSE,
                                              !.listening = RemoveEventListener("message", @),
                                              !.rest = TRUE, !.restCalls = @ + 1]]
  /\ sent' = <<>>
  /\ alert' = "none"
  /\ caught' = TRUE
  /\ escaped' = FALSE
  /\ lastOp' = "timeout"
  /\ Quiet
  /\ UNCHANGED <<ws, selector, isEvaluating, customActionsManager>>

\* The 5 s timer of fetchActions fires: it rejects the promise; when no
\* actions_list had resolved it, the app's fetchActions falls back to
\* fetchActionsRest, which issues GET /actions.
FetchTimeout(i) ==
  /\ fetch[i].timer
  /\ fetch' = [fetch EXCEPT ![i] = [@ EXCEPT !.timer = FALSE, !.pending = FALSE,
                                              !.listening = RemoveEventListener("message", @),
                                              !.rest = fetch[i].pending,
                                              !.restCalls = IF fetch[i].pending
                                                              THEN @ + 1 ELSE @]]
  /\ sent' = <<>>
  /\ alert' = "none"
  /\ caught' = fetch[i].pending
  /\ escaped' = FALSE
  /\ lastOp' = "timeout"
  /\ Quiet
  /\ UNCHANGED <<ws, selector, isEvaluating, customActionsManager>>

\* What becomes of a fetch(): a response that is OK, a response that is
\* not (an HTTP error), or a rejection (a network error).
Responses == {"ok", "not_ok", "rejected"}

\* The REST response arrives. fetchActionsRest stores data.actions and
\* repopulates the dropdown on an OK response (a body without actions makes
\* _populateActionSelect throw into the catch block); it logs a non-OK
\* response in the else branch and a network error in the catch block, and
\* returns [] for both; it never throws.
RestResponse(i, response, catalog) ==
  /\ fetch[i].rest
  /\ fetch' = [fetch EXCEPT ![i] = [@ EXCEPT !.rest = FALSE]]
  /\ selector' = IF response # "ok" THEN selector
                 ELSE IF catalog.defined
                   THEN PopulateActionSelect([selector EXCEPT !.actions = catalog])
                   ELSE [selector EXCEPT !.actions = catalog]
  /\ caught' = (response = "rejected" \/ (response = "ok" /\ ~catalog.defined))
  /\ sent' = <<>>
  /\ alert' = "none"
  /\ escaped' = FALSE
  /\ lastOp' = IF response = "ok" THEN "rest_ok" ELSE "rest_failed"
  /\ Quiet
  /\ UNCHANGED <<ws, isEvaluating, customActionsManager>>

\* The results a caller may pass to handleEvaluationResult: result.stats is
\* absent, or holds {count: 2, stage: "down", angle: 142.73}, or holds a
\* stage that is a number.
EvaluationResults ==
  {Object("result")}
    \cup {m \in ResultMessages : m.count = 2 /\ m.stage = "down"}
    \cup {m \in BadStageResults : m.count = 2}

\* handleEvaluationResult(result): a public method of the application with
\* no caller in the scripts. It passes result.stats, when present, to
\* updateStats without a test of isEvaluating and without a try block.
HandleEvaluationResult(result) ==
  /\ LET r == IF result.present # {} THEN UpdateStats(selector, result)
              ELSE [sel |-> selector, threw |-> FALSE]
     IN  /\ selector' = r.sel
         /\ escaped' = r.threw
  /\ calls' = IF result.present # {} THEN <<result>> ELSE <<>>
  /\ sent' = <<>>
  /\ drawn' = <<>>
  /\ alert' = "none"
  /\ caught' = FALSE
  /\ lastOp' = "handle_evaluation_result"
  /\ lastIn' = NoMessage
  /\ lastId' = ""
  /\ UNCHANGED <<ws, isEvaluating, customActionsManager, fetch, modules>>

\* connect(): `new WebSocket(url)` replaces this.socket with a socket that
\* is connecting and binds its handlers, or throws, and then the catch
\* block rejects the promise and this.socket keeps its value. The call is
\* the next of the MaxSockets calls the model follows.
Connect(constructed) ==
  /\ ws.created < MaxSockets
  /\ LET i == ws.created + 1
     IN  ws' = [ws EXCEPT !.created = i,
                          !.socket = IF constructed THEN i ELSE @,
                          !.readyState[i] = IF constructed THEN "CONNECTING" ELSE "NONE",
                          !.outcome[i] = IF constructed THEN "pending" ELSE "rejected"]
  /\ sent' = <<>>
  /\ alert' = "none"
  /\ caught' = ~constructed
  /\ escaped' = FALSE
  /\ lastOp' = "connect"
  /\ Quiet
  /\ UNCHANGED <<selector, isEvaluating, customActionsManager, fetch>>

\* A caller runs disconnect().
DisconnectCall ==
  /\ ws' = Disconnect(ws).ws
  /\ escaped' = Disconnect(ws).threw
  /\ sent' = <<>>
  /\ alert' = "none"
  /\ caught' = FALSE
  /\ lastOp' = "disconnect"
  /\ Quiet
  /\ UNCHANGED <<selector, isEvaluating, customActionsManager, fetch>>

\* A caller runs send(message).
SendCall(message) ==
  /\ escaped' = SendThrows(ws)
  /\ sent' = IF SendThrows(ws) THEN <<>> ELSE Send(ws, message)
  /\ alert' = "none"
  /\ caught' = FALSE
  /\ lastOp' = "send"
  /\ Quiet
  /\ UNCHANGED <<ws, selector, isEvaluating, customActionsManager, fetch>>

\* ------------------------------------------------- CustomActionsManager
\* What a task of the manager leaves alone.
ManagerQuiet ==
  /\ alert' = "none"
  /\ escaped' = FALSE
  /\ drawn' = <<>> /\ calls' = <<>> /\ lastIn' = NoMessage /\ lastId' = ""
  /\ UNCHANGED <<ws, isEvaluating, customActionsManager, fetch, recorder, bus>>

\* Whether the manager of the model exists. The application constructs the
\* manager of part_002 in initOptionalModules(); it cannot construct the one
\* of part_000 (ConstructorThrows), which stands here as constructed by a
\* caller that passes its 13 ids and registers the application's listener.
ManagerExists ==
  IF ConstructorThrows(customActions.script) THEN TRUE ELSE customActionsManager

\* loadActions() after the response: an OK response replaces this.actions
\* by data.actions; a failure is logged and this.actions stays.
LoadActions(m, ok, data) == IF ok THEN [m EXCEPT !.actions = Catalog(data)] ELSE m

\* The user opens the panel: show() calls loadActions(), which sends
\* GET /actions. The model follows one request of the manager at a time.
Show ==
  /\ ManagerExists
  /\ customActions.request = "none"
  /\ customActions' = [customActions EXCEPT !.request = "reload_show"]
  /\ notified' = <<>>
  /\ sent' = <<>>
  /\ caught' = FALSE
  /\ lastOp' = "show"
  /\ ManagerQuiet
  /\ UNCHANGED <<selector, server>>

\* saveAction() or deleteAction(id) up to its first await: the POST or the
\* DELETE is sent.
WriteAction(kind) ==
  /\ ManagerExists
  /\ customActions.request = "none"
  /\ customActions' = [customActions EXCEPT !.request = kind]
  /\ notified' = <<>>
  /\ sent' = <<>>
  /\ caught' = FALSE
  /\ lastOp' = kind
  /\ ManagerQuiet
  /\ UNCHANGED <<selector, server>>

\* The response to the POST or DELETE arrives. A non-OK response is logged
\* in the else branch and a network error in the catch block. On
\* success the backend holds the changed catalog; the script part_002
\* awaits loadActions() before it notifies, and part_000 calls
\* loadActions() and notifies at once, with this.actions as it is. The
\* app's onActionsChange listener passes the list to updateActions, and an
\* exception of a listener ends in the catch block of the method.
WriteResponse(response, changed) ==
  /\ customActions.request \in {"save", "delete"}
  /\ changed # server
  /\ lastOp' = IF response = "ok" THEN "write_ok" ELSE "write_failed"
  /\ server' = IF response = "ok" THEN changed ELSE server
  /\ IF response = "ok" /\ customActions.script = "part_000"
       THEN LET r == UpdateActions(selector, ws, customActions.actions)
            IN  /\ customActions' = [customActions EXCEPT !.request = "reload_detached"]
                /\ notified' = <<customActions.actions>>
                /\ selector' = r.sel
                /\ sent' = r.sent
                /\ caught' = r.threw
       ELSE /\ customActions' = [customActions EXCEPT
                                  !.request = IF response = "ok" THEN "reload_write"
                                              ELSE "none"]
            /\ notified' = <<>>
            /\ sent' = <<>>
            /\ caught' = (response = "rejected")
            /\ UNCHANGED selector
  /\ ManagerQuiet

\* The response to the GET /actions of loadActions arrives; the method that
\* awaited loadActions (saveAction or deleteAction of part_002) goes on to
\* notifyActionsChange().
LoadResponse(response) ==
  /\ customActions.request \in {"reload_show", "reload_write", "reload_detached"}
  /\ lastOp' = IF response = "ok" THEN "load_ok" ELSE "load_failed"
  /\ LET m == LoadActions(customActions, response = "ok", server)
     IN  /\ customActions' = [m EXCEPT !.request = "none"]
         /\ IF customActions.request = "reload_write"
              THEN LET r == UpdateActions(selector, ws, m.actions)
                   IN  /\ notified' = <<m.actions>>
                       /\ selector' = r.sel
                       /\ sent' = r.sent
                       /\ caught' = (response = "rejected" \/ r.threw)
              ELSE /\ notified' = <<>>
                   /\ sent' = <<>>
                   /\ caught' = (response = "rejected")
                   /\ UNCHANGED selector
  /\ ManagerQuiet
  /\ UNCHANGED server

\* ----------------------------------------------------------- VideoSaver
\* What a task of the recorder leaves alone.
RecorderQuiet ==
  /\ sent' = <<>>
  /\ escaped' = FALSE
  /\ drawn' = <<>> /\ calls' = <<>> /\ lastIn' = NoMessage /\ lastId' = ""
  /\ UNCHANGED <<ws, selector, isEvaluating, customActionsManager, fetch,
                 customActions, server, notified, bus>>

\* initOptionalModules() reaches initVideoSaver() only when
\* initCustomActions() has not thrown: the recorder exists once the
\* application has created the manager.
VideoSaverExists == customActionsManager /\ ~ConstructorThrows(customActions.script)

\* drawFrame(): the loops that run after a call of drawFrame, which draws
\* and schedules itself again only if isRecording is set.
DrawFrame(r) == IF r.isRecording THEN r.loops + 1 ELSE r.loops

\* startRecording(): _createMixedStream calls drawFrame() once and returns
\* the stream; then the MediaRecorder is created (the constructor throws
\* for a mimeType the browser does not support, which the catch block
\* reports) and started, and isRecording is set. The model follows one
\* stopped recorder at a time and at most MaxLoops loops.
StartRecording(supported) ==
  /\ VideoSaverExists
  /\ recorder.pending = "none"
  /\ recorder.isRecording => recorder.loops < MaxLoops
  /\ recorder' = IF supported
                   THEN [recorder EXCEPT !.loops = DrawFrame(recorder),
                                         !.mediaRecorder = "recording",
                                         !.isRecording = TRUE]
                   ELSE [recorder EXCEPT !.loops = DrawFrame(recorder)]
  /\ alert' = IF supported THEN "none" ELSE "record_failed"
  /\ caught' = ~supported
  /\ lastOp' = "start_recording"
  /\ RecorderQuiet

\* stopRecording()
StopRecording ==
  /\ VideoSaverExists
  /\ recorder' = IF recorder.mediaRecorder # "null" /\ recorder.isRecording
                   THEN [recorder EXCEPT !.mediaRecorder = "inactive",
                                         !.isRecording = FALSE,
                                         !.pending = "stop"]
                   ELSE recorder
  /\ alert' = "none"
  /\ caught' = FALSE
  /\ lastOp' = "stop_recording"
  /\ RecorderQuiet

\* requestAnimationFrame runs a scheduled drawFrame: it draws and schedules
\* itself again while isRecording is set, and ends its loop otherwise.
AnimationFrame ==
  /\ recorder.loops > 0
  /\ recorder' = [recorder EXCEPT !.loops = DrawFrame([recorder EXCEPT !.loops = @ - 1])]
  /\ alert' = "none"
  /\ caught' = FALSE
  /\ lastOp' = "frame"
  /\ RecorderQuiet

\* _saveRecording(): with no chunk it logs that nothing was recorded and
\* returns; else it downloads the recording and clears the chunks.
SaveRecording(chunks) ==
  IF chunks = 0 THEN [chunks |-> 0, saved |-> FALSE] ELSE [chunks |-> 0, saved |-> TRUE]

\* The stopped recorder fires dataavailable and stop in one task:
\* ondataavailable keeps a chunk that is not empty, onstop calls
\* _saveRecording(). Neither handler throws.
RecorderStop(size) ==
  /\ recorder.pending = "stop"
  /\ LET r == SaveRecording(IF size > 0 THEN recorder.chunks + 1 ELSE recorder.chunks)
     IN  /\ recorder' = [recorder EXCEPT !.pending = "none", !.chunks = r.chunks]
         /\ lastOp' = IF r.saved THEN "recording_saved" ELSE "recording_empty"
  /\ alert' = "none"
  /\ caught' = FALSE
  /\ RecorderQuiet

\* ------------------------------------------------------ _notifyCallbacks
\* The functions a caller registers as listeners: two that return and one
\* that throws. A function may be registered more than once.
Callbacks == {"returns", "alsoReturns", "throws"}

Throws(callback) == callback = "throws"

\* this.callbacks[eventName].forEach without a try block around the call:
\* the first listener that throws ends the loop and the exception leaves.
RECURSIVE NotifyUncaughtFrom(_, _)
NotifyUncaughtFrom(callbacks, k) ==
  IF k > Len(callbacks) THEN [invoked |-> <<>>, logged |-> 0, threw |-> FALSE]
  ELSE IF Throws(callbacks[k])
    THEN [invoked |-> <<callbacks[k]>>, logged |-> 0, threw |-> TRUE]
  ELSE LET rest == NotifyUncaughtFrom(callbacks, k + 1)
       IN  [rest EXCEPT !.invoked = <<callbacks[k]>> \o @]

NotifyCallbacksUncaught(callbacks) == NotifyUncaughtFrom(callbacks, 1)

\* The forEach of _notifyCallbacks from the k-th listener on: each call is
\* in a try block whose catch logs the error.
RECURSIVE NotifyFrom(_, _)
NotifyFrom(callbacks, k) ==
  IF k > Len(callbacks) THEN [invoked |-> <<>>, logged |-> 0, threw |-> FALSE]
  ELSE LET rest == NotifyFrom(callbacks, k + 1)
       IN  [rest EXCEPT !.invoked = <<callbacks[k]>> \o @,
                        !.logged = @ + (IF Throws(callbacks[k]) THEN 1 ELSE 0)]

\* _notifyCallbacks(eventName, data): the listeners it calls, in the order
\* of the calls, the errors it logs, and whether an exception leaves.
NotifyCallbacks(callbacks) == NotifyFrom(callbacks, 1)

\* What a task of an emitter's caller leaves alone.
BusQuiet ==
  /\ sent' = <<>>
  /\ alert' = "none"
  /\ drawn' = <<>> /\ calls' = <<>> /\ lastIn' = NoMessage
  /\ UNCHANGED <<ws, selector, isEvaluating, customActionsManager, fetch,
                 customActions, server, notified, recorder>>

Registered == Len(bus.callbacks["WebSocketClient"]) + Len(bus.callbacks["ActionSelector"])
                + Len(bus.callbacks["Settings"])

\* on(eventName, callback): the listener is appended to the list.
On(emitter, callback) ==
  /\ Registered < MaxCallbacks
  /\ bus' = [bus EXCEPT !.callbacks[emitter] = Append(@, callback)]
  /\ caught' = FALSE
  /\ escaped' = FALSE
  /\ lastOp' = "on"
  /\ lastId' = emitter
  /\ BusQuiet

\* callbacks.filter((cb) => cb !== callback): every registration of the
\* function is dropped and the others keep their order.
FilterCallbacks(callbacks, callback) ==
  SelectSeq(callbacks, LAMBDA cb : cb # callback)

\* The classes that have a removeEventListener method.
Removers == {"WebSocketClient", "ActionSelector"}

\* removeEventListener(eventName, callback): WebSocketClient filters the
\* list; ActionSelector only warns that the method is not implemented.
RemoveEventListenerCall(emitter, callback) ==
  /\ emitter \in Removers
  /\ bus' = IF emitter = "WebSocketClient"
              THEN [bus EXCEPT !.callbacks[emitter] = FilterCallbacks(@, callback)]
              ELSE bus
  /\ caught' = FALSE
  /\ escaped' = FALSE
  /\ lastOp' = "remove"
  /\ lastId' = emitter
  /\ BusQuiet

\* The caller has the emitter raise its event:
\* _notifyCallbacks(eventName, data) on the registered listeners.
Notify(emitter) ==
  /\ LET r == NotifyCallbacks(bus.callbacks[emitter])
     IN  /\ bus' = [bus EXCEPT !.invoked = r.invoked, !.logged = r.logged,
                                !.threw = r.threw]
         /\ caught' = (r.logged > 0)
         /\ escaped' = r.threw
  /\ lastOp' = "notify"
  /\ lastId' = emitter
  /\ BusQuiet

\* The application: it calls connect() once, in init().
Next ==
  \/ \E actionId \in Ids : SelectExercise(actionId)
  \/ \E value \in Ids : DropdownChange(value)
  \/ StartEvaluation
  \/ StopEvaluation
  \/ \E i \in Sockets : SocketOpen(i)
  \/ \E i \in Sockets, failed \in BOOLEAN : SocketClose(i, failed)
  \/ \E i \in Sockets, m \in Messages : Receive(i, m)
  \/ \E i \in Sockets : FetchTimeout(i)
  \/ \E i \in Sockets, response \in Responses, catalog \in Catalogs :
       (response = "ok" \/ catalog = UndefinedCatalog) /\ RestResponse(i, response, catalog)
  \/ \E result \in EvaluationResults : HandleEvaluationResult(result)

Spec == Init /\ [][Next]_vars

\* The transport under any caller: the public methods connect(),
\* disconnect() and send() are called at any time, next to what the
\* application does. The backend's messages are narrowed to one catalog,
\* which is what a transport claim needs of them.
TransportCatalog == Catalog(<<Squat>>)

TransportNext ==
  \/ \E value \in Ids : DropdownChange(value)
  \/ \E constructed \in BOOLEAN : Connect(constructed)
  \/ DisconnectCall
  \/ SendCall(Command("settings_change", ""))
  \/ \E actionId \in Ids : SelectExercise(actionId)
  \/ StartEvaluation
  \/ StopEvaluation
  \/ \E i \in Sockets : SocketOpen(i)
  \/ \E i \in Sockets, failed \in BOOLEAN : SocketClose(i, failed)
  \/ \E i \in Sockets : Receive(i, [Object("actions_list") EXCEPT !.actions = TransportCatalog])
  \/ \E i \in Sockets : FetchTimeout(i)
  \/ \E i \in Sockets, response \in Responses : RestResponse(i, response, TransportCatalog)

SpecTransport == Init /\ [][TransportNext]_vars

\* The custom-action manager of either script in front of the backend's
\* REST interface, with the app's listener and the selector behind it.
InitManager == (\E script \in Scripts : InitModules(script)) /\ InitApp

ManagerNext ==
  \/ Show
  \/ \E kind \in {"save", "delete"} : WriteAction(kind)
  \/ \E response \in Responses, changed \in Lists : WriteResponse(response, changed)
  \/ \E response \in Responses : LoadResponse(response)
  \/ \E actionId \in Ids : SelectExercise(actionId)
  \/ \E i \in Sockets : SocketOpen(i)
  \/ \E i \in Sockets, failed \in BOOLEAN : SocketClose(i, failed)

SpecManager == InitManager /\ [][ManagerNext]_vars

\* The recorder under its button and its browser events, on the page whose
\* socket events let init() create the optional modules.
ModulesNext ==
  \/ \E supported \in BOOLEAN : StartRecording(supported)
  \/ StopRecording
  \/ AnimationFrame
  \/ \E size \in {0, 1} : RecorderStop(size)
  \/ \E i \in Sockets : SocketOpen(i)
  \/ \E i \in Sockets, failed \in BOOLEAN : SocketClose(i, failed)

SpecModules == Init /\ [][ModulesNext]_vars

\* An emitter of each class as a caller constructs it, with no listener of
\* the application: the caller registers and removes listeners that return
\* or throw and has the emitter notify them.
NotifyNext ==
  \/ \E emitter \in Emitters, callback \in Callbacks : On(emitter, callback)
  \/ \E emitter \in Emitters : Notify(emitter)
  \/ \E emitter \in Removers, callback \in Callbacks :
       RemoveEventListenerCall(emitter, callback)

SpecNotify == Init /\ [][NotifyNext]_vars

\* ----------------------------------------------------------------- claims
Selected == selector.selectedAction.kind = "action"
Open == ws.socket # 0 /\ ws.readyState[ws.socket] = "OPEN"
StartCommand == [type |-> "start_evaluation", action_id |-> selector.selectedAction.id]

\* C1 (as claimed): after every selectExercise, start or stop call the
\* evaluating flag is true only if an exercise is selected and the
\* connection is Open.
C1_EvaluatingOnlyWhenSelectedAndOpen ==
  lastOp \in {"select", "start", "stop"} =>
    (isEvaluating => Selected /\ Open)

\* C2: a start() called with no exercise selected, or with the connection
\* not Open, shows the precondition message, leaves the evaluating flag and
\* the selector unchanged, sends nothing and throws nothing.
C2_StartRejected ==
  [][(lastOp' = "start" /\ (~Selected \/ ~Open)) =>
       /\ alert' = IF ~Selected THEN "select_first" ELSE "not_connected"
       /\ isEvaluating' = isEvaluating
       /\ selector' = selector
       /\ sent' = <<>>
       /\ ~escaped']_vars

\* C2 witness: start() was refused with an exercise selected and the
\* socket closed.
C2_Witness ==
  /\ lastOp = "start"
  /\ alert = "not_connected"
  /\ Selected
  /\ ws.readyState[1] = "CLOSED"

\* C3 (as claimed): when the socket closes or errors while the session is
\* evaluating, the session is forced back to Ready with the selection kept
\* and a connection-lost condition is surfaced.
C3_CloseForcesReady ==
  [][(lastOp' \in {"close", "error_close"} /\ isEvaluating) =>
       /\ ~isEvaluating'
       /\ selector'.selectedAction = selector.selectedAction
       /\ alert' = "connection_lost"]_vars

\* C4: a start() from Ready with the connection Open makes the session
\* evaluating and sends exactly one start_evaluation command with the
\* selected exercise's id; and the session becomes evaluating only in a
\* start() whose command the transport accepted.
C4_StartSendsOneCommand ==
  [][/\ (lastOp' = "start" /\ Selected /\ ~isEvaluating /\ Open) =>
          (isEvaluating' /\ sent' = <<StartCommand>>)
     /\ (~isEvaluating /\ isEvaluating') =>
          (lastOp' = "start" /\ sent' = <<StartCommand>>)]_vars

\* C4 witness: a start() has made the session evaluating and sent the
\* command for exercise "a".
C4_Witness ==
  /\ lastOp = "start"
  /\ isEvaluating
  /\ sent = <<[type |-> "start_evaluation", action_id |-> "a"]>>

\* C5: after stop() the session is not evaluating and the statistics shown
\* are the reset values, whether or not the stop command was transmitted.
C5_StopResets ==
  lastOp = "stop" =>
    /\ ~isEvaluating
    /\ selector.count = 0
    /\ selector.stage = "-"
    /\ selector.angle = <<0, 0>>

\* C5 witness: stop() ran with the socket closed, so nothing was sent.
C5_Witness ==
  /\ lastOp = "stop"
  /\ sent = <<>>
  /\ ws.readyState[1] = "CLOSED"
  /\ ~isEvaluating

\* C6: a result or processed_frame message handled while the session is
\* not evaluating reaches neither updateStats nor the canvas and leaves the
\* selector as it was; handled right after stop(), it leaves the statistics
\* at the reset values.
C6_LateMessagesDropped ==
  [][/\ (lastOp' \in {"result", "processed_frame"} /\ ~isEvaluating) =>
          (calls' = <<>> /\ drawn' = <<>> /\ selector' = selector)
     /\ (lastOp = "stop" /\ lastOp' = "result") =>
          (selector'.count = 0 /\ selector'.stage = "-" /\ selector'.angle = <<0, 0>>)]_vars

\* C6 witness: a complete result message was handled while not evaluating.
C6_Witness ==
  /\ lastOp = "result"
  /\ ~isEvaluating
  /\ lastIn \in ResultMessages
  /\ calls = <<>>
  /\ selector.count = 0

\* C7: a result message handled while evaluating is passed to updateStats
\* exactly once, in the task of its arrival, with its count, stage and
\* angle; a complete one is what the display then shows.
C7_ResultDeliveredOnce ==
  (lastOp = "result" /\ isEvaluating) =>
    /\ calls = <<lastIn>>
    /\ lastIn \in ResultMessages =>
         /\ selector.count = lastIn.count
         /\ selector.stage = (IF lastIn.stage = "up" THEN "UP" ELSE "DOWN")
         /\ (lastIn.angle = 14273 => selector.angle = <<142, 7>>)

\* C7 witness: the result {count: 2, stage: "up", angle: 142.73} was handled
\* while evaluating.
C7_Witness ==
  /\ lastOp = "result"
  /\ isEvaluating
  /\ lastIn \in ResultMessages
  /\ lastIn.count = 2
  /\ lastIn.stage = "up"
  /\ selector.angle = <<142, 7>>

\* C8: handling a message that is no JSON, or has no known type, throws
\* nothing, sends nothing and changes nothing that message handling reads:
\* the selector, the evaluating flag, the transport, the pending fetches.
C8_MalformedIgnored ==
  [][lastOp' = "malformed" =>
       /\ ~escaped'
       /\ selector' = selector
       /\ isEvaluating' = isEvaluating
       /\ ws' = ws
       /\ fetch' = fetch
       /\ customActionsManager' = customActionsManager
       /\ sent' = <<>> /\ calls' = <<>> /\ drawn' = <<>>]_vars

\* C8 witness: a message that made JSON.parse or the read of its type throw
\* was handled while evaluating, with statistics on display.
C8_Witness ==
  /\ lastOp = "malformed"
  /\ caught
  /\ isEvaluating
  /\ selector.count > 0

\* C9 (as claimed): when an actions_list no longer holds the id of the
\* selected exercise, the selection is cleared and the session is not
\* evaluating.
C9_RefreshFallsBackToIdle ==
  [][(/\ lastOp' = "actions_list"
      /\ Selected
      /\ selector'.actions.defined
      /\ \A k \in 1..Len(selector'.actions.list) :
            selector'.actions.list[k].id # selector.selectedAction.id) =>
       (selector'.selectedAction.kind = "null" /\ ~isEvaluating')]_vars

\* The catalog entry selectExercise(id) is to select: the first with the id.
IsFirstWithId(a, list, id) ==
  \E k \in 1..Len(list) :
    /\ list[k] = a
    /\ a.id = id
    /\ \A j \in 1..(k - 1) : list[j].id # id

Resolves(id) ==
  /\ id # ""
  /\ selector.actions.defined
  /\ \E k \in 1..Len(selector.actions.list) : selector.actions.list[k].id = id

\* C10 (as claimed): selectExercise(id) with an id of the catalog selects
\* the catalog entry and leaves the session not evaluating.
C10_SelectLeavesReady ==
  [][(lastOp' = "select" /\ Resolves(lastId')) =>
       /\ IsFirstWithId(selector'.selectedAction, selector.actions.list, lastId')
       /\ ~isEvaluating']_vars

\* C10 (amended): selectExercise(id) with an id of the catalog selects the
\* first catalog entry with that id and leaves the evaluating flag as it
\* was.
C10_SelectKeepsEvaluating ==
  [][(lastOp' = "select" /\ Resolves(lastId')) =>
       /\ IsFirstWithId(selector'.selectedAction, selector.actions.list, lastId')
       /\ isEvaluating' = isEvaluating
       /\ ~escaped']_vars

\* C10 witness: "a" was selected while evaluating, from a catalog that holds
\* two entries with that id, and the session still evaluates.
C10_Witness ==
  /\ lastOp = "select"
  /\ lastId = "a"
  /\ isEvaluating
  /\ selector.selectedAction.name = "Squat"
  /\ selector.actions.defined
  /\ Len(selector.actions.list) = 2
  /\ selector.actions.list[1].id = "a"
  /\ selector.actions.list[2].id = "a"
  /\ selector.actions.list[1] # selector.actions.list[2]
  /\ selector.actions.list[1] = selector.selectedAction

\* C11 (as claimed): selectExercise(id) with a non-empty id that is not in
\* the catalog changes neither the selection nor the evaluating flag nor the
\* statistics shown, and surfaces the failed lookup (an alert or an error).
C11_UnknownIdIsNoOp ==
  [][(/\ lastOp' = "select"
      /\ lastId' # ""
      /\ selector.actions.defined
      /\ ~HasId(selector.actions.list, lastId')) =>
       /\ selector' = selector
       /\ isEvaluating' = isEvaluating
       /\ (alert' # "none" \/ escaped' \/ caught')]_vars

\* C12: send(command) transmits the command (and returns true) only when the
\* connection is Open; with the connection in any other state (no socket,
\* connecting, closing, closed, errored) it transmits nothing (returns
\* false), raises nothing and leaves the transport as it was.
C12_SendOnlyWhenOpen ==
  [][lastOp' = "send" =>
       /\ sent' # <<>> => (Open /\ sent' = <<Command("settings_change", "")>>)
       /\ ~Open => (sent' = <<>> /\ ~escaped')
       /\ ws' = ws]_vars

\* C12 witness: a send() was refused on a socket that disconnect() has set
\* closing, while the connected flag was still set.
C12_Witness ==
  /\ lastOp = "send"
  /\ sent = <<>>
  /\ ~escaped
  /\ ws.connected
  /\ ws.socket # 0
  /\ ws.readyState[ws.socket] = "CLOSING"

\* C13: the promise of each connect() call is settled once: it is resolved
\* exactly when the socket opens before any error, after the onOpen
\* listeners have run (the app's has started its catalog fetch), and it is
\* rejected exactly when the socket fails first or `new WebSocket` throws;
\* socket events after that leave the outcome as delivered.
C13_ConnectSettlesOnce ==
  [][\A i \in Sockets :
       /\ ws.outcome[i] \in {"resolved", "rejected"} => ws'.outcome[i] = ws.outcome[i]
       /\ (ws.outcome[i] = "none" /\ ws'.outcome[i] # "none") =>
            /\ lastOp' = "connect"
            /\ ws'.outcome[i] = IF ws'.readyState[i] = "CONNECTING"
                                  THEN "pending" ELSE "rejected"
       /\ (ws.outcome[i] = "pending" /\ ws'.readyState[i] = "OPEN") =>
            (ws'.outcome[i] = "resolved" /\ fetch'[i].started /\ lastOp' = "open")
       /\ (ws.outcome[i] = "pending" /\ ws'.readyState[i] = "CLOSED") =>
            (ws'.outcome[i] = "rejected" /\ lastOp' = "error_close")
       /\ (ws.outcome[i] = "pending" /\ ws'.outcome[i] # "pending") =>
            ws'.readyState[i] \in {"OPEN", "CLOSED"}]_vars

\* C13 witness: the second connect() was resolved when its socket opened,
\* and the socket has failed since.
C13_Witness ==
  /\ lastOp = "error_close"
  /\ ws.outcome[2] = "resolved"
  /\ ws.readyState[2] = "CLOSED"
  /\ ws.readyState[1] = "CLOSED"

\* C14: a catalog fetch calls the REST fetch at most once. When its timer
\* fires with no actions_list received, the connection-based fetch has
\* failed (it is no longer pending, and unanswered) and the REST fetch is
\* called once;
\* when an actions_list with its array of actions has resolved the fetch
\* before the timer fires, the REST fetch is not called, then or later.
C14_RestFallbackOnce ==
  \A i \in Sockets :
    /\ fetch[i].restCalls <= 1
    /\ fetch[i].answered => (fetch[i].restCalls = 0 /\ ~fetch[i].rest)
    /\ (fetch[i].started /\ ~fetch[i].timer /\ ~fetch[i].answered) =>
         (~fetch[i].pending /\ fetch[i].restCalls = 1)
    /\ fetch[i].rest => fetch[i].restCalls = 1

\* C14 witness: the timer of a fetch fired after an actions_list had
\* resolved the fetch, and no REST fetch was called.
C14_Witness ==
  /\ lastOp = "timeout"
  /\ fetch[1].answered
  /\ ~fetch[1].timer
  /\ fetch[1].restCalls = 0
  /\ Len(selector.actions.list) = 2

\* C15: disconnect() raises nothing in any state; it leaves the socket, if
\* there is one, neither connecting nor open; with no socket it changes
\* nothing; and a second disconnect() leaves the transport exactly as the
\* first one left it.
C15_DisconnectIdempotent ==
  [][lastOp' = "disconnect" =>
       /\ ~escaped'
       /\ ws.socket = 0 => ws' = ws
       /\ ws.socket # 0 => ws'.readyState[ws.socket] \in {"CLOSING", "CLOSED"}
       /\ ws'.socket = ws.socket /\ ws'.connected = ws.connected
       /\ Disconnect(ws').ws = ws' /\ ~Disconnect(ws').threw
       /\ lastOp = "disconnect" => ws' = ws]_vars

\* C15 witness: disconnect() has run on a transport that has no socket.
C15_Witness ==
  /\ lastOp = "disconnect"
  /\ ws.socket = 0
  /\ ~escaped

\* A catalog refresh arrives that still holds the id of the selection.
RefreshKeepsSelection ==
  /\ lastOp' = "actions_list"
  /\ Selected
  /\ selector'.actions.defined
  /\ HasId(selector'.actions.list, selector.selectedAction.id)

ReannounceCommand == Command("action_select", selector.selectedAction.id)

\* C16 (as claimed): when a catalog refresh still holds the selected id, the
\* selection becomes the refreshed entry, and the action_select that
\* re-announces it is sent when the session is Evaluating and no command is
\* sent when it is Ready.
C16_ReannounceOnlyWhenEvaluating ==
  [][RefreshKeepsSelection =>
       /\ IsFirstWithId(selector'.selectedAction, selector'.actions.list,
                        selector.selectedAction.id)
       /\ sent' = IF isEvaluating THEN <<ReannounceCommand>> ELSE <<>>]_vars

\* C16 (amended): when a catalog refresh still holds the selected id, the
\* selection becomes the refreshed entry (the first with that id) and one
\* action_select that re-announces it is sent over the open connection, in
\* Ready as in Evaluating; the evaluating flag stays as it was.
C16_ReannounceWhenOpen ==
  [][RefreshKeepsSelection =>
       /\ IsFirstWithId(selector'.selectedAction, selector'.actions.list,
                        selector.selectedAction.id)
       /\ Open
       /\ sent' = <<ReannounceCommand>>
       /\ isEvaluating' = isEvaluating]_vars

\* C16 witness: in Ready, a refresh replaced the selected "a" by its edited
\* entry and the action_select for "a" was sent.
C16_Witness ==
  /\ lastOp = "actions_list"
  /\ ~isEvaluating
  /\ selector.selectedAction = SquatEdited
  /\ selector.actions.list = <<SquatEdited, Squat>>
  /\ sent = <<Command("action_select", "a")>>

\* C17 (as claimed): when the connection-based fetch has timed out and the
\* REST fallback fails too (a network error or a non-OK response), the
\* failure is shown to the user.
C17_RestFailureSurfaced ==
  [][lastOp' = "rest_failed" => (alert' # "none" \/ escaped')]_vars

\* C18 (as claimed): selectExercise(id) with an id of the catalog, called
\* while the session is Evaluating, sends one action_select command that
\* carries the id.
C18_SelectWhileEvaluatingAnnounces ==
  [][(lastOp' = "select" /\ Resolves(lastId') /\ isEvaluating) =>
       sent' = <<Command("action_select", lastId')>>]_vars

\* A catalog fetch over the connection is outstanding: requested, and
\* neither answered nor timed out.
FetchOutstanding == \E i \in Sockets : fetch[i].pending

\* C19 (as claimed): while a catalog fetch is outstanding, start() and
\* selectExercise() are refused: they change neither the selection (nor
\* anything else the selector shows) nor the evaluating flag, and they send
\* no command.
C19_RefusedWhileFetching ==
  [][(lastOp' \in {"start", "select"} /\ FetchOutstanding) =>
       /\ selector' = selector
       /\ isEvaluating' = isEvaluating
       /\ sent' = <<>>]_vars

\* A connect() call has not been settled yet.
ConnectInFlight == \E i \in Sockets : ws.outcome[i] = "pending"

\* C20 (as claimed): a connect() called while an earlier call is not yet
\* settled is rejected and leaves the socket of the attempt in flight in
\* place.
C20_SecondConnectRejected ==
  [][(lastOp' = "connect" /\ ConnectInFlight) =>
       /\ ws'.outcome[ws'.created] = "rejected"
       /\ ws'.socket = ws.socket
       /\ ws'.readyState = ws.readyState]_vars

\* C21: no socket is created and this.socket is not replaced except by a
\* call of connect(), which the application makes once, before its first
\* await (no task of the application is a connect()); a socket that is
\* closing or closed never opens again, so once the current socket has
\* closed or failed the connection is not Open until connect() is called.
C21_NoAutomaticReconnect ==
  [][/\ lastOp' # "connect" =>
          /\ ws'.created = ws.created
          /\ ws'.socket = ws.socket
          /\ ~Open => (IsConnected(ws') => lastOp' = "open")
     /\ \A i \in Sockets :
          /\ ws.readyState[i] \in {"CLOSING", "CLOSED"} =>
               ws'.readyState[i] \in {"CLOSING", "CLOSED"}
          /\ ws.readyState[i] = "CLOSED" => ws'.readyState[i] = "CLOSED"
          /\ (ws.readyState[i] = "NONE" /\ ws'.readyState[i] # "NONE") =>
               lastOp' = "connect"]_vars

\* C21 witness: the only socket has closed after it was open, and a later
\* start() found the connection not Open.
C21_Witness ==
  /\ lastOp = "start"
  /\ alert = "not_connected"
  /\ ws.created = 1
  /\ ws.outcome[1] = "resolved"
  /\ ws.readyState[1] = "CLOSED"

\* C22 (as claimed): start() called while the session is Evaluating sends
\* no further start_evaluation command and leaves the session as it was.
C22_StartWhileEvaluatingIgnored ==
  [][(lastOp' = "start" /\ isEvaluating) =>
       /\ sent' = <<>>
       /\ isEvaluating' = isEvaluating
       /\ selector' = selector]_vars

\* C23 (as claimed): once the catalog has been loaded, however often, a
\* change of the dropdown runs the selection handler once (the dropdown
\* has one change listener) and sends at most one action_select command.
C23_ChangeHandledOnce ==
  [][(lastOp' = "change" /\ selector.listeners > 0) =>
       /\ selector.listeners = 1
       /\ Len(sent') <= 1]_vars

\* C24 (as claimed): once a catalog fetch has been resolved or has timed
\* out, its temporary listener is no longer registered on the transport.
C24_TemporaryListenerRemoved ==
  \A i \in Sockets :
    (fetch[i].started /\ ~fetch[i].pending) => ~fetch[i].listening

\* C25 (as claimed): whenever isConnected() reports true, a send() is
\* accepted: the connected flag is set whenever the current socket is open.
C25_IsConnectedImpliesSendAccepted ==
  IsConnected(ws) =>
    (~SendThrows(ws) /\ Send(ws, Command("settings_change", "")) # <<>>)

\* C26 (as claimed): when the handling of a result message fails while the
\* session is Evaluating (rendering one of its fields threw), none of
\* count, stage and angle on display has changed.
C26_StatsAllOrNothing ==
  [][(lastOp' = "result" /\ isEvaluating /\ caught') =>
       /\ selector'.count = selector.count
       /\ selector'.stage = selector.stage
       /\ selector'.angle = selector.angle]_vars

\* C27 (as claimed): once an actions_list that carries a list has been
\* handled with the custom-action manager constructed, the selector's
\* this.actions and the manager's this.actions both equal the list received.
C27_BothCachesHoldReceivedList ==
  [][(lastOp' = "actions_list" /\ customActionsManager /\ lastIn'.actions.defined) =>
       /\ selector'.actions = lastIn'.actions
       /\ customActions'.actions = lastIn'.actions]_vars

\* C28 (as claimed): when a task of the manager notifies the
\* onActionsChange listeners after a successful save or delete, the reload
\* has completed (no request of the manager is in flight) and the list the
\* listeners get is the catalog the backend holds after the change.
C28_NotifiedAfterReload ==
  [][(lastOp' \in {"write_ok", "load_ok", "load_failed"} /\ notified' # <<>>) =>
       /\ customActions'.request = "none"
       /\ notified' = <<Catalog(server')>>]_vars

\* C29: after a successful startRecording(), for as long as isRecording is
\* set a frame-compositing loop is active (a drawFrame is scheduled), and a
\* loop ends only when isRecording has been cleared.
C29_LoopActiveWhileRecording ==
  [][/\ recorder'.isRecording => recorder'.loops > 0
     /\ recorder'.loops < recorder.loops => ~recorder.isRecording]_vars

\* C29, the half that holds: a loop ends only when isRecording is cleared.
C29_LoopEndsOnlyWhenStopped ==
  [][recorder'.loops < recorder.loops => ~recorder.isRecording]_vars

\* C30: when an emitter (transport, action selector or settings) notifies
\* its listeners and one of them throws, every registered listener is still
\* called, in the order of registration, one error is logged for each
\* listener that throws and no exception leaves the notification.
C30_ThrowingListenerIsolated ==
  [][lastOp' = "notify" =>
       LET callbacks == bus.callbacks[lastId']
       IN  /\ bus'.invoked = callbacks
           /\ bus'.logged = Cardinality({k \in 1..Len(callbacks) : Throws(callbacks[k])})
           /\ ~bus'.threw
           /\ ~escaped']_vars

\* C30 happens: a listener that throws stands between two others, and all
\* three were called in the order of their registration.
C30_Witness ==
  /\ lastOp = "notify"
  /\ lastId \in Emitters
  /\ bus.callbacks[lastId] = <<"returns", "throws", "alsoReturns">>
  /\ bus.invoked = <<"returns", "throws", "alsoReturns">>
  /\ bus.logged = 1
  /\ ~bus.threw
====
